---- MODULE Spec2Model ----
(***************************************************************************)
(* TripIt MCP server: the throttled, retrying API client                   *)
(* (TripItClient.throttle / TripItClient.request) and the JSON-RPC         *)
(* dispatcher (handleMCPRequest).                                          *)
(*                                                                         *)
(* Time is the millisecond clock read by Date.now().  JavaScript runs one  *)
(* continuation at a time: every action below is the code between two     *)
(* awaits of one logical call.                                             *)
(***************************************************************************)
EXTENDS Integers, Sequences, FiniteSets, TLC

\* ---------------------------------------------------------------------------
\* Program constants (src/src/tripit/client.ts:22-24)
\* ---------------------------------------------------------------------------
MAX_RETRIES == 3
BASE_DELAY_MS == 1000
MIN_REQUEST_INTERVAL_MS == 400

\* ---------------------------------------------------------------------------
\* Bounds of the model
\* ---------------------------------------------------------------------------
\* granularity of the clock, in milliseconds
TickMs == 200
\* logical calls started on the one client
MaxCalls == 3

\* call sites that may hold a logical call on the shared client
Callers == {"c1", "c2"}

\* ---------------------------------------------------------------------------
\* HTTP responses delivered by fetch
\* ---------------------------------------------------------------------------
Statuses == {200, 400, 401, 404, 429, 500, 503}
Bodies == {"{a}", "{b}", "<html>"}

NoResp == [status |-> -1, body |-> ""]
\* fetch rejected: no response was obtained
NetFail == [status |-> 0, body |-> ""]

\* the body is read only for 2xx (response.json) and for the other non-ok
\* statuses (response.text); elsewhere one body stands for all
Responses ==
    {r \in [status : Statuses, body : Bodies] :
        /\ r.status \in {401, 404, 429, 500, 503} => r.body = "<html>"
        /\ r.status = 400 => r.body = "{a}"}

Outcomes == Responses \cup {NetFail}

\* response.ok
ResponseOk(r) == r.status >= 200 /\ r.status <= 299

\* does response.json() parse the body
IsJson(b) == b \in {"{a}", "{b}"}

\* ---------------------------------------------------------------------------
\* Errors (lib/errors)
\* ---------------------------------------------------------------------------
NoError == [kind |-> "none", statusCode |-> -1, details |-> ""]

TripItError(statusCode, details) ==
    [kind |-> "TripItError", statusCode |-> statusCode, details |-> details]

AuthenticationError ==
    [kind |-> "AuthenticationError", statusCode |-> 401, details |-> "Authentication failed"]

NotFoundError(resource, id) ==
    [kind |-> "NotFoundError", statusCode |-> 404,
     details |-> resource \o " with ID " \o id \o " not found"]

\* variant: only AuthenticationError is rethrown
IsTerminalError_AuthOnly(e) == e.kind = "AuthenticationError"

\* error instanceof AuthenticationError || error instanceof NotFoundError
IsTerminalError(e) == e.kind \in {"AuthenticationError", "NotFoundError"}

ServerErrorText(status) == "Server error: " \o ToString(status)

FETCH_FAILED == "TypeError: fetch failed"
JSON_FAILED == "SyntaxError: Unexpected token"
EXHAUSTED == "Request failed after retries"

\* ---------------------------------------------------------------------------
\* Outcome of a logical call
\* ---------------------------------------------------------------------------
Pending == [kind |-> "pending", payload |-> "", err |-> NoError]
Returned(payload) == [kind |-> "returned", payload |-> payload, err |-> NoError]
Thrown(e) == [kind |-> "thrown", payload |-> "", err |-> e]

\* the path of the logical call (the operations differ only in method, path and body)
PATH == "/list/trip"

\* ---------------------------------------------------------------------------
\* The arguments the client operations hand to request(): method, path, body
\* ---------------------------------------------------------------------------
NoOperation == [method |-> "", path |-> "", body |-> ""]

\* listTrips: this.request('GET', path)
ListTripsRequest == [method |-> "GET", path |-> PATH, body |-> ""]

\* createTrip / createObject: this.request('POST', '/create', { ... })
CreateRequest == [method |-> "POST", path |-> "/create", body |-> "{Trip}"]

\* updateTrip / updateObject: this.request('POST', `/replace/.../id/${id}`, { ... })
ReplaceRequest == [method |-> "POST", path |-> "/replace/trip/id/123", body |-> "{Trip}"]

\* deleteTrip / deleteObject: this.request('GET', `/delete/.../id/${id}`)
DeleteRequest == [method |-> "GET", path |-> "/delete/trip/id/123", body |-> ""]

Operations == {ListTripsRequest, CreateRequest, ReplaceRequest, DeleteRequest}

\* the operations that change data at the provider
MutatingOperations == {CreateRequest, ReplaceRequest, DeleteRequest}

\* variant: a retry marks the request with the number of the attempt
WireRequest_Marked(o, a) ==
    [method |-> o.method,
     url |-> IF o.method = "GET" THEN o.path \o "/format/json" ELSE o.path,
     body |-> IF o.body # "" /\ o.method = "POST"
              THEN "format=json&json=" \o o.body \o "&attempt=" \o ToString(a)
              ELSE ""]

\* what attempt a of an operation puts on the wire: requestUrl, options.method
\* and options.body, built anew in every iteration from method, path and body
WireRequest(o, a) ==
    [method |-> o.method,
     url |-> IF o.method = "GET" THEN o.path \o "/format/json" ELSE o.path,
     body |-> IF o.body # "" /\ o.method = "POST"
              THEN "format=json&json=" \o o.body
              ELSE ""]


\* ---------------------------------------------------------------------------
\* Tool registry (mcp/tools)
\* ---------------------------------------------------------------------------
TripToolNames ==
    <<"tripit_list_trips", "tripit_get_trip", "tripit_create_trip",
      "tripit_update_trip", "tripit_delete_trip">>

ObjectToolNames ==
    <<"tripit_list_objects", "tripit_get_object", "tripit_create_flight",
      "tripit_create_hotel", "tripit_create_car", "tripit_create_activity",
      "tripit_update_object", "tripit_delete_object">>

ProToolNames ==
    <<"tripit_get_flight_status", "tripit_list_points_programs", "tripit_get_profile">>

Range(seq) == {seq[i] : i \in 1..Len(seq)}

\* { ...a, ...b }: the keys of a in order, then the keys of b that a lacks
RECURSIVE SpreadKeys(_, _)
SpreadKeys(a, b) ==
    IF b = <<>> THEN a
    ELSE SpreadKeys(IF Head(b) \in Range(a) THEN a ELSE Append(a, Head(b)), Tail(b))

\* Object.keys(allTools)
allTools == SpreadKeys(SpreadKeys(TripToolNames, ObjectToolNames), ProToolNames)

\* the names of getToolDefinitions(), in order
getToolDefinitions == allTools

\* property names every object literal inherits from Object.prototype
ObjectPrototypeNames == {"toString", "constructor"}

\* name in registry
NameIn(name, registry) == name \in Range(registry) \cup ObjectPrototypeNames

\* a name that is a JSON object with no callable toString: the in operator
\* cannot convert it to a property key
NAME_UNCONVERTIBLE == "{toString:1}"
CANNOT_CONVERT == "Cannot convert object to primitive value"

\* tool names handed to tools/call
CallNames == Range(allTools) \cup {"no_such_tool", "toString", NAME_UNCONVERTIBLE}

\* ---------------------------------------------------------------------------
\* JSON-RPC envelopes of the dispatcher
\* ---------------------------------------------------------------------------
\* id: string | number | null, or the member left out
ID_NULL == "null"
ID_ABSENT == "undefined"
RpcIds == {ID_NULL, ID_ABSENT, "9", "'abc'"}

KnownMethods ==
    {"initialize", "initialized", "tools/list", "tools/call", "ping",
     "resources/list", "prompts/list"}
RpcMethods == KnownMethods \cup {"unknown/method", "tools/delete"}

NAME_ABSENT == "undefined"
ARGS_ABSENT == "undefined"
NoParams == [present |-> FALSE, name |-> NAME_ABSENT, arguments |-> ARGS_ABSENT]
RpcParams ==
    {NoParams} \cup
    [present : {TRUE},
     name : {NAME_ABSENT, "", "tripit_list_trips", "no_such_tool"},
     arguments : {ARGS_ABSENT, "{include_past:true}"}]

RpcRequests == [id : RpcIds, method : RpcMethods, params : RpcParams]

\* what handleToolCall does when it is awaited: it resolves to a
\* {content, isError} value, or it rejects with an Error or with another value
ToolOutcomes ==
    {[kind |-> "resolves", text |-> "{Trip: []}", isError |-> FALSE],
     [kind |-> "resolves", text |-> "Unknown tool", isError |-> TRUE],
     [kind |-> "rejectsError", text |-> "boom", isError |-> TRUE],
     [kind |-> "rejectsValue", text |-> "42", isError |-> TRUE]}

\* variant: an earlier protocol revision
PROTOCOL_VERSION_Draft == "2024-10-07"

PROTOCOL_VERSION == "2024-11-05"
SERVER_INFO == [name |-> "tripit-mcp", version |-> "1.0.0"]

NoRequest == [id |-> ID_ABSENT, method |-> "", params |-> NoParams]
NoResult == [tag |-> "none"]
NoRpcError == [code |-> 0, message |-> ""]
NoResponse == [jsonrpc |-> "", id |-> ID_ABSENT, result |-> NoResult, error |-> NoRpcError]

\* { jsonrpc: '2.0', id, result }
ResultResponse(id, res) ==
    [jsonrpc |-> "2.0", id |-> id, result |-> res, error |-> NoRpcError]

\* variant: error responses carry id null
ErrorResponse_NullId(id, code, message) ==
    [jsonrpc |-> "2.0", id |-> ID_NULL, result |-> NoResult,
     error |-> [code |-> code, message |-> message]]

\* { jsonrpc: '2.0', id, error: { code, message } }
ErrorResponse(id, code, message) ==
    [jsonrpc |-> "2.0", id |-> id, result |-> NoResult,
     error |-> [code |-> code, message |-> message]]

\* variant: the default branch does not name the method
MethodNotFound_NoName(id, method) == ErrorResponse(id, -32601, "Method not found")

\* default: error { code: -32601, message: `Method not found: ${method}` }
MethodNotFound(id, method) == ErrorResponse(id, -32601, "Method not found: " \o method)

\* variant: only a missing name member counts, an empty name is routed
MissingToolName_AbsentOnly(params) == ~params.present \/ params.name = NAME_ABSENT

\* !toolParams?.name
MissingToolName(params) == ~params.present \/ params.name \in {NAME_ABSENT, ""}

\* error instanceof Error ? error.message : 'Internal error'
InternalErrorMessage(tool) ==
    IF tool.kind = "rejectsError" THEN tool.text ELSE "Internal error"

\* the response handleMCPRequest resolves to for a request, when handleToolCall
\* (if it is reached) behaves as tool
handleMCPRequest(request, tool) ==
    LET id == request.id
        method == request.method
        params == request.params
    IN  CASE method = "initialize" ->
               ResultResponse(id, [tag |-> "initialize",
                                   protocolVersion |-> PROTOCOL_VERSION,
                                   capabilities |-> {"tools"},
                                   serverInfo |-> SERVER_INFO])
          [] method = "initialized" -> ResultResponse(id, [tag |-> "empty"])
          [] method = "tools/list" ->
               ResultResponse(id, [tag |-> "tools", tools |-> getToolDefinitions])
          [] method = "tools/call" ->
               IF MissingToolName(params)
               THEN ErrorResponse(id, -32602, "Missing tool name")
               ELSE IF tool.kind = "resolves"
               THEN ResultResponse(id, [tag |-> "tool", text |-> tool.text,
                                        isError |-> tool.isError])
               ELSE ErrorResponse(id, -32603, InternalErrorMessage(tool))
          [] method = "ping" -> ResultResponse(id, [tag |-> "empty"])
          [] method = "resources/list" -> ResultResponse(id, [tag |-> "resources", list |-> <<>>])
          [] method = "prompts/list" -> ResultResponse(id, [tag |-> "prompts", list |-> <<>>])
          [] OTHER -> MethodNotFound(id, method)

\* ---------------------------------------------------------------------------
\* Tool arguments: JSON documents and the members the handlers read
\* ---------------------------------------------------------------------------
UNSET == "undefined"

ArgKeys ==
    {"include_past", "modified_since", "include_objects", "page", "page_size",
     "trip_id", "object_type", "object_id", "flight_id"}

EmptyArgs == [k \in ArgKeys |-> UNSET]

ArgDocs ==
    {"{}", "{include_past:true}", "{include_past:false,page:2,page_size:5}",
     "{modified_since:'1970-01-01T00:00:10Z',include_objects:true}",
     "{modified_since:'yesterday'}",
     "{trip_id:'123',include_objects:false}",
     "{object_type:'air',object_id:'7',flight_id:'7'}"}

\* the members of a JSON document
ParseArgs(doc) ==
    CASE doc = "{include_past:true}" ->
            [EmptyArgs EXCEPT !["include_past"] = "true"]
      [] doc = "{include_past:false,page:2,page_size:5}" ->
            [EmptyArgs EXCEPT !["include_past"] = "false", !["page"] = "2",
                              !["page_size"] = "5"]
      [] doc = "{modified_since:'1970-01-01T00:00:10Z',include_objects:true}" ->
            [EmptyArgs EXCEPT !["modified_since"] = "1970-01-01T00:00:10Z",
                              !["include_objects"] = "true"]
      [] doc = "{modified_since:'yesterday'}" ->
            [EmptyArgs EXCEPT !["modified_since"] = "yesterday"]
      [] doc = "{trip_id:'123',include_objects:false}" ->
            [EmptyArgs EXCEPT !["trip_id"] = "123", !["include_objects"] = "false"]
      [] doc = "{object_type:'air',object_id:'7',flight_id:'7'}" ->
            [EmptyArgs EXCEPT !["object_type"] = "air", !["object_id"] = "7",
                              !["flight_id"] = "7"]
      [] OTHER -> EmptyArgs

\* toolParams.arguments ?? {}
ArgumentsOrEmpty(arguments) ==
    IF arguments = ARGS_ABSENT THEN ParseArgs("{}") ELSE ParseArgs(arguments)

\* JavaScript truthiness of a member
Truthy(v) == v \notin {UNSET, "false", "0", "", "NaN"}

\* Math.floor(Date.parse(s) / 1000)
EpochSeconds(s) == IF s = "1970-01-01T00:00:10Z" THEN "10" ELSE "NaN"

\* variant: the date is parsed whether or not the argument is given
ModifiedSince_Always(v) == EpochSeconds(v)

\* args.modified_since ? Math.floor(Date.parse(args.modified_since) / 1000) : undefined
ModifiedSince(v) == IF Truthy(v) THEN EpochSeconds(v) ELSE UNSET

\* JSON.stringify(result, null, 2)
Stringify(payload) == "json(" \o payload \o ")"

\* ---------------------------------------------------------------------------
\* Thrown values and handleTripItError (lib/errors)
\* ---------------------------------------------------------------------------
ProRequiredError(feature) ==
    [kind |-> "ProRequiredError", statusCode |-> 403,
     details |-> feature \o " requires TripIt Pro subscription"]

\* new Error(message), or a subclass that is not a TripItError
PlainError(message) == [kind |-> "Error", statusCode |-> -1, details |-> message]

\* a thrown value that is not an Error
NonError(value) == [kind |-> "value", statusCode |-> -1, details |-> value]

\* error instanceof TripItError
IsTripItError(e) ==
    e.kind \in {"TripItError", "AuthenticationError", "NotFoundError", "ProRequiredError"}

\* error.message
ErrorMessage(e) ==
    IF IsTripItError(e)
    THEN "TripIt API error (" \o ToString(e.statusCode) \o "): " \o e.details
    ELSE e.details

REAUTHORIZE == "TripIt authentication expired. Please re-authorize at /oauth/start"
UNEXPECTED == "An unexpected error occurred. Please try again."

\* a { content: [{ type: 'text', text }], isError } value the router resolves to
ToolResult(text, isError) == [kind |-> "resolves", text |-> text, isError |-> isError]

\* variant: only the Authentication / NotFound classes are told apart, any
\* other TripItError falls to the generic text
handleTripItError_ByClass(e) ==
    IF e.kind = "AuthenticationError" THEN ToolResult(REAUTHORIZE, TRUE)
    ELSE IF e.kind \in {"NotFoundError", "ProRequiredError"}
    THEN ToolResult(ErrorMessage(e), TRUE)
    ELSE ToolResult(UNEXPECTED, TRUE)

handleTripItError(e) ==
    IF IsTripItError(e)
    THEN IF e.statusCode = 401 THEN ToolResult(REAUTHORIZE, TRUE)
         ELSE IF e.statusCode = 404 THEN ToolResult(ErrorMessage(e), TRUE)
         ELSE IF e.statusCode = 403 THEN ToolResult(ErrorMessage(e), TRUE)
         ELSE ToolResult("TripIt error: " \o e.details, TRUE)
    ELSE ToolResult(UNEXPECTED, TRUE)

\* values handed to handleTripItError
ErrorValues ==
    {AuthenticationError, NotFoundError("resource", PATH), NotFoundError("Trip", "123"),
     ProRequiredError("Flight status"),
     TripItError(401, "Token expired"), TripItError(403, "<html>"),
     TripItError(404, "gone"), TripItError(400, "{a}"),
     TripItError(429, ServerErrorText(429)), TripItError(500, ServerErrorText(500)),
     TripItError(0, FETCH_FAILED),
     PlainError("Random error"),
     PlainError("Cannot read properties of undefined"),
     NonError("string error")}

\* ---------------------------------------------------------------------------
\* Tool handlers (handleTripTool, handleObjectTool, handleProTool) and the
\* router (handleToolCall).  out is the way the client operation the handler
\* awaits settles; each yields the value it resolves to and the client
\* operations it invoked.
\* ---------------------------------------------------------------------------
\* the case labels of the three switch statements
TripToolCases ==
    {"tripit_list_trips", "tripit_get_trip", "tripit_create_trip",
     "tripit_update_trip", "tripit_delete_trip"}

ObjectToolCases ==
    {"tripit_list_objects", "tripit_get_object", "tripit_create_flight",
     "tripit_create_hotel", "tripit_create_car", "tripit_create_activity",
     "tripit_update_object", "tripit_delete_object"}

ProToolCases ==
    {"tripit_get_flight_status", "tripit_list_points_programs", "tripit_get_profile"}

ClientCall(op, argv) == [op |-> op, argv |-> argv]

\* the options object handed to client.listTrips:
\* past, modifiedSince, includeObjects, page, pageSize
ListTripsOptions(args) ==
    <<args["include_past"], ModifiedSince(args["modified_since"]),
      args["include_objects"], args["page"], args["page_size"]>>

\* the client operation a case invokes, with the arguments it is given
ClientOp(name, args) ==
    CASE name = "tripit_list_trips" -> ClientCall("listTrips", ListTripsOptions(args))
      [] name = "tripit_get_trip" ->
            ClientCall("getTrip",
                       <<args["trip_id"],
                         IF args["include_objects"] = "false" THEN "false" ELSE "true">>)
      [] name = "tripit_create_trip" -> ClientCall("createTrip", <<>>)
      [] name = "tripit_update_trip" -> ClientCall("updateTrip", <<args["trip_id"]>>)
      [] name = "tripit_delete_trip" -> ClientCall("deleteTrip", <<args["trip_id"]>>)
      [] name = "tripit_list_objects" ->
            ClientCall("listObjects", <<args["object_type"], args["trip_id"]>>)
      [] name = "tripit_get_object" ->
            ClientCall("getObject", <<args["object_type"], args["object_id"]>>)
      [] name = "tripit_create_flight" -> ClientCall("createFlight", <<args["trip_id"]>>)
      [] name = "tripit_create_hotel" -> ClientCall("createHotel", <<args["trip_id"]>>)
      [] name = "tripit_create_car" -> ClientCall("createCar", <<args["trip_id"]>>)
      [] name = "tripit_create_activity" -> ClientCall("createActivity", <<args["trip_id"]>>)
      [] name = "tripit_update_object" ->
            ClientCall("updateObject", <<args["object_type"], args["object_id"]>>)
      [] name = "tripit_delete_object" ->
            ClientCall("deleteObject", <<args["object_type"], args["object_id"]>>)
      [] name = "tripit_get_flight_status" ->
            ClientCall("getFlightStatus", <<args["flight_id"]>>)
      [] name = "tripit_list_points_programs" -> ClientCall("listPointsPrograms", <<>>)
      [] name = "tripit_get_profile" -> ClientCall("getProfile", <<>>)

\* result.AirObject: of the payloads of the model, {a} carries the member
HasAirObject(payload) == payload = "{a}"

\* what a case returns once its client operation has resolved
SuccessResult(name, args, payload) ==
    CASE name = "tripit_delete_trip" ->
            ToolResult("Trip " \o args["trip_id"] \o " deleted successfully.", FALSE)
      [] name = "tripit_delete_object" ->
            ToolResult(args["object_type"] \o " " \o args["object_id"]
                           \o " deleted successfully.", FALSE)
      [] name = "tripit_get_flight_status" ->
            IF HasAirObject(payload)
            THEN ToolResult(Stringify("status of " \o payload), FALSE)
            ELSE ToolResult("Flight not found", TRUE)
      [] OTHER -> ToolResult(Stringify(payload), FALSE)

\* try { const result = await client.op(...); return ... } catch (error) { return handleTripItError(error) }
RunCase(name, args, out) ==
    [result |-> IF out.kind = "thrown"
                THEN handleTripItError(out.err)
                ELSE SuccessResult(name, args, out.payload),
     calls |-> <<ClientOp(name, args)>>]

\* { content: [{ type: 'text', text: `Unknown tool: ${name}` }], isError: true }
UnknownTool(name) ==
    [result |-> ToolResult("Unknown tool: " \o name, TRUE), calls |-> <<>>]

handleTripTool(name, args, out) ==
    IF name \in TripToolCases THEN RunCase(name, args, out) ELSE UnknownTool(name)

handleObjectTool(name, args, out) ==
    IF name \in ObjectToolCases THEN RunCase(name, args, out) ELSE UnknownTool(name)

handleProTool(name, args, out) ==
    IF name \in ProToolCases THEN RunCase(name, args, out) ELSE UnknownTool(name)

\* variant: the pro tools are registered but not routed
handleToolCall_NoPro(name, args, out) ==
    IF name = NAME_UNCONVERTIBLE
    THEN [result |-> [kind |-> "rejectsError", text |-> CANNOT_CONVERT, isError |-> TRUE],
          calls |-> <<>>]
    ELSE IF NameIn(name, TripToolNames) THEN handleTripTool(name, args, out)
    ELSE IF NameIn(name, ObjectToolNames) THEN handleObjectTool(name, args, out)
    ELSE UnknownTool(name)

\* handleToolCall: the in operator throws for a name it cannot convert to a
\* property key; otherwise the first registry that has the name decides
handleToolCall(name, args, out) ==
    IF name = NAME_UNCONVERTIBLE
    THEN [result |-> [kind |-> "rejectsError", text |-> CANNOT_CONVERT, isError |-> TRUE],
          calls |-> <<>>]
    ELSE IF NameIn(name, TripToolNames) THEN handleTripTool(name, args, out)
    ELSE IF NameIn(name, ObjectToolNames) THEN handleObjectTool(name, args, out)
    ELSE IF NameIn(name, ProToolNames) THEN handleProTool(name, args, out)
    ELSE UnknownTool(name)

\* the errors a client operation rejects with: those of request(), and a
\* TypeError of a wrapper that reads a member of a missing argument
ClientErrors ==
    {AuthenticationError, NotFoundError("resource", PATH),
     TripItError(400, "{a}"), TripItError(403, "<html>"),
     TripItError(500, ServerErrorText(500)), TripItError(0, FETCH_FAILED),
     PlainError("Cannot read properties of undefined")}

\* the ways a client operation settles
ClientOutcomes == {Returned("{a}"), Returned("{b}")} \cup {Thrown(e) : e \in ClientErrors}

\* ---------------------------------------------------------------------------
\* Request values handed to handleMCPRequest by the /mcp endpoint
\* ---------------------------------------------------------------------------
\* the JSON document null
JsonNull == [json |-> "null"]

\* a body without a method member (an empty object, a number, a string, an array)
METHOD_ABSENT == "undefined"

ToolParams ==
    {NoParams} \cup
    [present : {TRUE},
     name : CallNames \cup {NAME_ABSENT, ""},
     arguments : ArgDocs \cup {ARGS_ABSENT}]

\* decoded bodies: for the methods that do not read params one params value
\* stands for all
McpBodies ==
    {JsonNull}
    \cup [id : RpcIds, method : (RpcMethods \ {"tools/call"}) \cup {METHOD_ABSENT},
          params : {NoParams}]
    \cup [id : {ID_NULL, "9"}, method : {"tools/call"}, params : ToolParams]

\* const { id, method, params } = request
Destructurable(request) == request # JsonNull

\* is handleToolCall reached for the request
ToolRouted(request) ==
    /\ Destructurable(request)
    /\ request.method = "tools/call"
    /\ ~MissingToolName(request.params)

\* handleToolCall was not invoked
NotRouted == [kind |-> "none", text |-> "", isError |-> FALSE]

\* ---------------------------------------------------------------------------
\* The /mcp endpoint and the TOKENS namespace
\* ---------------------------------------------------------------------------
\* crypto.randomUUID() values
UserIds == {"u1", "u2"}
OAuthStates == {"s1", "s2"}

\* a query parameter that is missing or empty
QUERY_ABSENT == "undefined"

\* the query of /oauth/callback: state, and whether oauth_token and
\* oauth_verifier are given
CallbackQueries ==
    [state : OAuthStates \cup {QUERY_ABSENT}, token : BOOLEAN, verifier : BOOLEAN]

NoCallback == [state |-> QUERY_ABSENT, token |-> FALSE, verifier |-> FALSE]

\* variant: only the state parameter is required
MissingOAuthParams_StateOnly(query) == query.state = QUERY_ABSENT

\* !state || !oauthToken || !oauthVerifier
MissingOAuthParams(query) ==
    query.state = QUERY_ABSENT \/ ~query.token \/ ~query.verifier

AccessTokenKey(userId) == "user:" \o userId \o ":access_token"
AccessTokenSecretKey(userId) == "user:" \o userId \o ":access_token_secret"
RequestTokenKey(state) == "oauth:" \o state \o ":request_token"

HEADER_ABSENT == "undefined"
AuthHeaders == {HEADER_ABSENT, "Basic u1", "bearer u1", "Bearer ", "Bearer u1", "Bearer u2"}

\* authHeader?.startsWith('Bearer ')
StartsWithBearer(h) == h \in {"Bearer ", "Bearer u1", "Bearer u2"}

\* authHeader.slice(7)
BearerUser(h) ==
    CASE h = "Bearer u1" -> "u1"
      [] h = "Bearer u2" -> "u2"
      [] OTHER -> ""

\* request bodies: one that is not JSON, and JSON documents
BODY_INVALID == [json |-> "{oops"]

PostBodies ==
    {BODY_INVALID, JsonNull,
     [id |-> "9", method |-> "ping", params |-> NoParams],
     [id |-> "9", method |-> "tools/call",
      params |-> [present |-> TRUE, name |-> "tripit_list_trips",
                  arguments |-> "{include_past:true}"]]}

NoHttpRequest == [auth |-> HEADER_ABSENT, body |-> BODY_INVALID]
NoHttpResponse == [status |-> 0, body |-> NoResponse]

MISSING_HEADER == "Missing Authorization header. Use: Bearer <user_id>"
INVALID_SESSION == "Invalid or expired session. Please re-authorize at /oauth/start"

\* c.json(body, status)
HttpJson(body, status) == [status |-> status, body |-> body]

\* variant: a body that is not JSON is reported as an invalid request
ParseError_InvalidRequest == ErrorResponse(ID_NULL, -32600, "Parse error")

\* { jsonrpc: '2.0', id: null, error: { code: -32700, message: 'Parse error' } }
ParseError == ErrorResponse(ID_NULL, -32700, "Parse error")

\* c.html(page)
HttpHtml(title) == [status |-> 200, body |-> [html |-> title]]

OAUTH_START_FAILED == "Failed to start OAuth flow"
OAUTH_MISSING == "Missing OAuth parameters"
OAUTH_EXPIRED == "OAuth session expired. Please try again."
OAUTH_FAILED == "Failed to complete OAuth flow"

\* one operation on the TOKENS namespace
KvOp(slot, op, key) == [slot |-> slot, op |-> op, key |-> key]

KvSlots == {"token", "secret", "request"}

\* variant: the request token is not deleted
CallbackOps_NoDelete(state, userId) ==
    {KvOp("token", "put", AccessTokenKey(userId)),
     KvOp("secret", "put", AccessTokenSecretKey(userId))}

\* the operations inside Promise.all of /oauth/callback
CallbackOps(state, userId) ==
    {KvOp("token", "put", AccessTokenKey(userId)),
     KvOp("secret", "put", AccessTokenSecretKey(userId)),
     KvOp("request", "delete", RequestTokenKey(state))}

\* the store after the operations that took effect
ApplyOps(store, ops) ==
    (store \cup {o.key : o \in {x \in ops : x.op = "put"}})
    \ {o.key : o \in {x \in ops : x.op = "delete"}}

\* variant: a session is accepted when the access token alone is stored
HasSession_TokenOnly(store, userId) == AccessTokenKey(userId) \in store

\* !(!accessToken || !accessTokenSecret): stored values are never empty
HasSession(store, userId) ==
    /\ AccessTokenKey(userId) \in store
    /\ AccessTokenSecretKey(userId) \in store

\* ---------------------------------------------------------------------------
\* TripItOAuth.signRequest (lib/oauth)
\* ---------------------------------------------------------------------------
\* consumer key and secret the TripItOAuth object is constructed with
ConsumerPairs ==
    {[key |-> "ck1", secret |-> "cs1"], [key |-> "ck1", secret |-> "cs2"],
     [key |-> "ck2", secret |-> "cs1"]}

\* arguments of signRequest, the consumer pair of the object, and the nonce
\* and timestamp authorize() draws for the operation
SignInputs ==
    [method : {"GET", "POST"},
     url : {"https://api.tripit.com/v1/list/trip/format/json",
            "https://api.tripit.com/v1/create"},
     consumer : ConsumerPairs,
     token : {"tok1", "tok2"},
     tokenSecret : {"sec1", "sec2"},
     nonce : {"n1", "n2"},
     timestamp : {"1700000000", "1700000001"}]

SignFields == {"method", "url", "consumer", "token", "tokenSecret", "nonce", "timestamp"}

NoSignInput ==
    [method |-> "", url |-> "", consumer |-> [key |-> "", secret |-> ""],
     token |-> "", tokenSecret |-> "", nonce |-> "", timestamp |-> ""]

\* JavaScript values that reach the header: strings and promises
JsStringValue(str) == [type |-> "string", value |-> str]
JsPromise(settlesTo) == [type |-> "Promise", value |-> settlesTo]

\* the signature base string: method, URL and the oauth_ parameters
BaseString(in) ==
    in.method \o "&" \o in.url \o "&" \o in.consumer.key \o "&" \o in.nonce
        \o "&HMAC-SHA1&" \o in.timestamp \o "&" \o in.token \o "&1.0"

\* the signing key: consumer secret & token secret
SigningKey(in) == in.consumer.secret \o "&" \o in.tokenSecret

\* the digest crypto.subtle.sign computes, base64 encoded; taken as free of
\* collisions
HmacDigest(message, key) == "hmac(" \o key \o "," \o message \o ")"

\* private async hmacSha1(message, key): an async function returns a promise,
\* which settles to the digest after the caller has gone on
hmacSha1(message, key) == JsPromise(HmacDigest(message, key))

\* hash_function: (baseString, key) => this.hmacSha1(baseString, key)
hash_function(baseString, key) == hmacSha1(baseString, key)

\* String(value), as encodeURIComponent applies it to its argument
JsToString(v) == IF v.type = "Promise" THEN "[object Promise]" ELSE v.value

\* percentEncode(value): the strings of SignInputs that reach the header
\* consist of unreserved characters
PercentEncode(v) ==
    IF JsToString(v) = "[object Promise]"
    THEN "%5Bobject%20Promise%5D"
    ELSE JsToString(v)

\* this.oauth.authorize({ url, method }, { key, secret }): the oauth_
\* parameters, oauth_signature being what hash_function returned
Authorize(in) ==
    [oauth_consumer_key |-> JsStringValue(in.consumer.key),
     oauth_nonce |-> JsStringValue(in.nonce),
     oauth_signature |-> hash_function(BaseString(in), SigningKey(in)),
     oauth_signature_method |-> JsStringValue("HMAC-SHA1"),
     oauth_timestamp |-> JsStringValue(in.timestamp),
     oauth_token |-> JsStringValue(in.token),
     oauth_version |-> JsStringValue("1.0")]

\* this.oauth.toHeader(oauthData): the Authorization header, parameter by parameter
ToHeader(oauthData) == [k \in DOMAIN oauthData |-> PercentEncode(oauthData[k])]

\* signRequest(method, url, accessToken, accessTokenSecret)
signRequest(in) == ToHeader(Authorize(in))

NoHeader == [oauth_signature |-> ""]

VARIABLES
    sinceLast,  \* Date.now() - this.lastRequestTime, counted up to MIN_REQUEST_INTERVAL_MS
    stamped,    \* has lastRequestTime been recorded yet (it is 0 after construction)
    gap,        \* distance between the two latest recorded timestamps (-1: fewer than two)
    calls,      \* logical calls started so far
    pc,         \* position of each caller inside request()
    attempt,    \* loop variable of request()
    lastError,  \* local lastError of request()
    resp,       \* response of the current attempt
    armed,      \* delay of the timer the caller awaits, or awaited last
    slept,      \* time passed since that timer was armed, counted up to its delay
    waits,      \* backoff delays awaited in this logical call
    sent,       \* requests handed to fetch in this logical call
    signed,     \* signRequest calls in this logical call
    result,     \* outcome of the logical call
    rpcReq,     \* request handed to handleMCPRequest last
    rpcResp,    \* response handleMCPRequest resolved to for it
    rpcPhase,   \* position of the /mcp request in flight
    rpcSettled, \* how the promise of handleMCPRequest settled
    routed,     \* value handleToolCall settled with, if it was invoked
    clientLog,  \* client operations invoked while handling the request
    clientOut,  \* how the invoked client operation settled
    errIn,      \* value handed to handleTripItError last
    errOut,     \* result handleTripItError returned for it
    kv,         \* keys stored in the TOKENS namespace
    httpReq,    \* Authorization header and body of the POST /mcp handled last
    httpResp,   \* HTTP response of the endpoint
    bodyRead,   \* has c.req.json() been called for the request
    route,      \* route of the HTTP request handled last
    cbReq,      \* query of the /oauth/callback, if that was handled last
    cbStored,   \* did it find a request token stored for the state
    cbWrote,    \* TOKENS operations of it that took effect
    cbExchange, \* how getAccessToken settled in it, if it was called
    cbUser,     \* user id generated in it, if one was
    issued,     \* states generated by /oauth/start so far
    redeemed,   \* per state, the callbacks that returned the success page
    signPhase,  \* sign operations of the pair under comparison done so far
    signIn,     \* inputs of the two sign operations
    signOut,    \* Authorization header each of them returned
    stamps,     \* per caller, times its call recorded the last-request timestamp
    op,         \* per caller, the arguments of its call of request()
    wire,       \* per caller, the requests its call handed to fetch, in order
    sinceSend,  \* ms since a request was last handed to fetch, saturating
    sendGap     \* ms between the two most recent requests handed to fetch

vars == <<sinceLast, stamped, gap, calls, pc, attempt, lastError, resp,
          armed, slept, waits, sent, signed, result, rpcReq, rpcResp,
          rpcPhase, rpcSettled, routed, clientLog, clientOut, errIn, errOut,
          kv, httpReq, httpResp, bodyRead,
          route, cbReq, cbStored, cbWrote, cbExchange, cbUser, issued, redeemed,
          signPhase, signIn, signOut, stamps, op, wire, sinceSend, sendGap>>

wireVars == <<stamps, op, wire, sinceSend, sendGap>>

clientVars == <<sinceLast, stamped, gap, calls, pc, attempt, lastError, resp,
                armed, slept, waits, sent, signed, result, wireVars>>

toolVars == <<rpcPhase, rpcSettled, routed, clientLog, clientOut>>

errVars == <<errIn, errOut>>

httpVars == <<kv, httpReq, httpResp, bodyRead>>

oauthVars == <<route, cbReq, cbStored, cbWrote, cbExchange, cbUser, issued, redeemed>>

signVars == <<signPhase, signIn, signOut>>

rpcVars == <<rpcReq, rpcResp, toolVars, errVars, httpVars, oauthVars, signVars>>

Min(a, b) == IF a < b THEN a ELSE b

\* 2^n
RECURSIVE Pow2(_)
Pow2(n) == IF n = 0 THEN 1 ELSE 2 * Pow2(n - 1)

\* variant: the delay does not grow with the attempt
BackoffDelay_Constant(a) == BASE_DELAY_MS

\* BASE_DELAY_MS * Math.pow(2, attempt)
BackoffDelay(a) == BASE_DELAY_MS * Pow2(a)

\* variant: the timer is armed with the elapsed time, not with the remainder
ThrottleDelay_Elapsed(elapsed) == elapsed

\* MIN_REQUEST_INTERVAL_MS - elapsed
ThrottleDelay(elapsed) == MIN_REQUEST_INTERVAL_MS - elapsed

\* lastError ?? new TripItError(0, 'Request failed after retries')
ExhaustedError(e) == IF e = NoError THEN TripItError(0, EXHAUSTED) ELSE e

\* variant: lastError ??= error, the first error is kept
RecordError_KeepFirst(old, new) == IF old = NoError THEN new ELSE old

\* the error recorded when an attempt fails after an earlier one did
RecordError(old, new) == new

Init ==
    /\ sinceLast = MIN_REQUEST_INTERVAL_MS
    /\ stamped = FALSE
    /\ gap = -1
    /\ calls = 0
    /\ pc = [p \in Callers |-> "idle"]
    /\ attempt = [p \in Callers |-> 0]
    /\ lastError = [p \in Callers |-> NoError]
    /\ resp = [p \in Callers |-> NoResp]
    /\ armed = [p \in Callers |-> 0]
    /\ slept = [p \in Callers |-> 0]
    /\ waits = [p \in Callers |-> <<>>]
    /\ sent = [p \in Callers |-> 0]
    /\ signed = [p \in Callers |-> 0]
    /\ result = [p \in Callers |-> Pending]
    /\ rpcReq = NoRequest
    /\ rpcResp = NoResponse
    /\ rpcPhase = "idle"
    /\ rpcSettled = "none"
    /\ routed = NotRouted
    /\ clientLog = <<>>
    /\ clientOut = Pending
    /\ errIn = NoError
    /\ errOut = NotRouted
    /\ kv = {}
    /\ httpReq = NoHttpRequest
    /\ httpResp = NoHttpResponse
    /\ bodyRead = FALSE
    /\ route = "none"
    /\ cbReq = NoCallback
    /\ cbStored = FALSE
    /\ cbWrote = {}
    /\ cbExchange = "none"
    /\ cbUser = ""
    /\ issued = {}
    /\ redeemed = [s \in OAuthStates |-> 0]
    /\ signPhase = 0
    /\ signIn = <<NoSignInput, NoSignInput>>
    /\ signOut = <<NoHeader, NoHeader>>
    /\ stamps = [p \in Callers |-> 0]
    /\ op = [p \in Callers |-> NoOperation]
    /\ wire = [p \in Callers |-> <<>>]
    /\ sinceSend = MIN_REQUEST_INTERVAL_MS
    /\ sendGap = MIN_REQUEST_INTERVAL_MS

\* positions at which a caller awaits a setTimeout timer
TimerStates == {"throttleWait", "backoffRetry", "backoffCatch"}

\* ---------------------------------------------------------------------------
\* The clock advances.  A continuation that is ready to run (a caller about
\* to read the clock in throttle(), or about to sign and send after
\* throttle() returned) runs before any further time passes.
\* ---------------------------------------------------------------------------
Tick ==
    /\ \A p \in Callers : pc[p] \notin {"throttle", "send"}
    /\ sinceLast' = Min(sinceLast + TickMs, MIN_REQUEST_INTERVAL_MS)
    /\ slept' = [p \in Callers |->
                    IF pc[p] \in TimerStates
                    THEN Min(slept[p] + TickMs, armed[p])
                    ELSE slept[p]]
    /\ sinceSend' = Min(sinceSend + TickMs, MIN_REQUEST_INTERVAL_MS)
    /\ UNCHANGED <<stamped, gap, calls, pc, attempt, lastError, resp,
                   armed, waits, sent, signed, result>>
    /\ UNCHANGED <<stamps, op, wire, sendGap>>
    /\ UNCHANGED rpcVars

\* entry of request(method, path, body): lastError = null, attempt = 0
BeginRequest(p, o) ==
    /\ pc[p] = "idle"
    /\ calls < MaxCalls
    /\ calls' = calls + 1
    /\ pc' = [pc EXCEPT ![p] = "throttle"]
    /\ op' = [op EXCEPT ![p] = o]
    /\ UNCHANGED <<sinceLast, stamped, gap, attempt, lastError, resp,
                   armed, slept, waits, sent, signed, result>>
    /\ UNCHANGED <<stamps, wire, sinceSend, sendGap>>

\* a call of request() by a caller of the client alone
EnterRequest(p, o) ==
    /\ BeginRequest(p, o)
    /\ UNCHANGED rpcVars

\* a logical call issued while no other call is in flight on the client
StartCall(p) ==
    /\ \A q \in Callers : pc[q] = "idle"
    /\ \E o \in Operations : EnterRequest(p, o)

\* a logical call issued from a call site whatever the other call sites do;
\* the throttle does not look at the operation, one operation stands for all
StartConcurrentCall(p) == EnterRequest(p, ListTripsRequest)

\* the caller of request() takes the payload or the error; the locals of the call are gone
LeaveRequest(p) ==
    /\ pc[p] = "done"
    /\ pc' = [pc EXCEPT ![p] = "idle"]
    /\ attempt' = [attempt EXCEPT ![p] = 0]
    /\ lastError' = [lastError EXCEPT ![p] = NoError]
    /\ resp' = [resp EXCEPT ![p] = NoResp]
    /\ armed' = [armed EXCEPT ![p] = 0]
    /\ slept' = [slept EXCEPT ![p] = 0]
    /\ waits' = [waits EXCEPT ![p] = <<>>]
    /\ sent' = [sent EXCEPT ![p] = 0]
    /\ signed' = [signed EXCEPT ![p] = 0]
    /\ result' = [result EXCEPT ![p] = Pending]
    /\ stamps' = [stamps EXCEPT ![p] = 0]
    /\ op' = [op EXCEPT ![p] = NoOperation]
    /\ wire' = [wire EXCEPT ![p] = <<>>]
    /\ UNCHANGED <<sinceLast, stamped, gap, calls, sinceSend, sendGap>>

Return(p) ==
    /\ LeaveRequest(p)
    /\ UNCHANGED rpcVars

\* this.lastRequestTime = Date.now()
RecordRequestTime ==
    /\ gap' = IF stamped THEN sinceLast ELSE -1
    /\ sinceLast' = 0
    /\ stamped' = TRUE

\* await new Promise((resolve) => setTimeout(resolve, delay))
ArmTimer(p, delay) ==
    /\ armed' = [armed EXCEPT ![p] = delay]
    /\ slept' = [slept EXCEPT ![p] = 0]

\* variant: the callback runs only once more than the delay has passed on a
\* timer that stops counting at its delay
TimerFired_Strict(p) == slept[p] > armed[p]

\* has the timer the caller awaits fired
TimerFired(p) == slept[p] >= armed[p]

\* throttle(), up to its await: read the clock, compare, arm the timer or record
ThrottleCheck(p) ==
    /\ pc[p] = "throttle"
    /\ LET elapsed == sinceLast IN
        IF elapsed < MIN_REQUEST_INTERVAL_MS
        THEN /\ ArmTimer(p, ThrottleDelay(elapsed))
             /\ pc' = [pc EXCEPT ![p] = "throttleWait"]
             /\ UNCHANGED <<sinceLast, stamped, gap, stamps>>
        ELSE /\ RecordRequestTime
             /\ stamps' = [stamps EXCEPT ![p] = @ + 1]
             /\ pc' = [pc EXCEPT ![p] = "send"]
             /\ UNCHANGED <<armed, slept>>
    /\ UNCHANGED <<calls, attempt, lastError, resp, waits, sent, signed, result>>
    /\ UNCHANGED <<op, wire, sinceSend, sendGap>>
    /\ UNCHANGED rpcVars

\* variant: the timestamp is recorded only when throttle() did not wait
ThrottleWake_NoRecord(p) ==
    /\ pc[p] = "throttleWait"
    /\ TimerFired(p)
    /\ pc' = [pc EXCEPT ![p] = "send"]
    /\ UNCHANGED <<sinceLast, stamped, gap, stamps>>
    /\ UNCHANGED <<calls, attempt, lastError, resp, armed, slept, waits, sent,
                   signed, result>>
    /\ UNCHANGED <<op, wire, sinceSend, sendGap>>
    /\ UNCHANGED rpcVars

\* throttle(), after its timer fired: record the timestamp
ThrottleWake(p) ==
    /\ pc[p] = "throttleWait"
    /\ TimerFired(p)
    /\ RecordRequestTime
    /\ stamps' = [stamps EXCEPT ![p] = @ + 1]
    /\ pc' = [pc EXCEPT ![p] = "send"]
    /\ UNCHANGED <<calls, attempt, lastError, resp, armed, slept, waits, sent,
                   signed, result>>
    /\ UNCHANGED <<op, wire, sinceSend, sendGap>>
    /\ UNCHANGED rpcVars

\* signRequest, then fetch(requestUrl, options)
Send(p) ==
    /\ pc[p] = "send"
    /\ signed' = [signed EXCEPT ![p] = @ + 1]
    /\ sent' = [sent EXCEPT ![p] = @ + 1]
    /\ resp' = [resp EXCEPT ![p] = NoResp]
    /\ pc' = [pc EXCEPT ![p] = "fetch"]
    /\ wire' = [wire EXCEPT ![p] = Append(@, WireRequest(op[p], attempt[p]))]
    /\ sendGap' = sinceSend
    /\ sinceSend' = 0
    /\ UNCHANGED <<sinceLast, stamped, gap, calls, attempt, lastError,
                   armed, slept, waits, result>>
    /\ UNCHANGED <<stamps, op>>
    /\ UNCHANGED rpcVars

\* the catch block of request() for an error that is not rethrown:
\* record it, await the backoff timer
CatchAndBackoff(p, e) ==
    /\ lastError' = [lastError EXCEPT ![p] = RecordError(@, e)]
    /\ waits' = [waits EXCEPT ![p] = Append(@, BackoffDelay(attempt[p]))]
    /\ ArmTimer(p, BackoffDelay(attempt[p]))
    /\ pc' = [pc EXCEPT ![p] = "backoffCatch"]
    /\ UNCHANGED result

\* the catch block of request() for AuthenticationError / NotFoundError
Rethrow(p, e) ==
    /\ result' = [result EXCEPT ![p] = Thrown(e)]
    /\ pc' = [pc EXCEPT ![p] = "done"]
    /\ UNCHANGED <<lastError, waits, armed, slept>>

\* catch (error) { ... }
Catch(p, e) ==
    IF IsTerminalError(e) THEN Rethrow(p, e) ELSE CatchAndBackoff(p, e)

\* response.status === 429 || response.status >= 500
IsRetryStatus(s) == s = 429 \/ s >= 500

\* fetch settles; the status of the response is classified.  In the 429 / 5xx
\* branch lastError is assigned when the timer has fired (line 92); it is a
\* local that nothing reads while the timer runs, so the assignment is taken
\* here together with the arming of the timer.
Respond(p, r) ==
    /\ pc[p] = "fetch"
    /\ resp' = [resp EXCEPT ![p] = r]
    /\ IF r = NetFail
       THEN Catch(p, TripItError(0, FETCH_FAILED))
       ELSE IF r.status = 401
       THEN Catch(p, AuthenticationError)
       ELSE IF r.status = 404
       THEN Catch(p, NotFoundError("resource", op[p].path))
       ELSE IF IsRetryStatus(r.status)
       THEN /\ waits' = [waits EXCEPT ![p] = Append(@, BackoffDelay(attempt[p]))]
            /\ ArmTimer(p, BackoffDelay(attempt[p]))
            /\ lastError' = [lastError EXCEPT ![p] =
                    RecordError(@, TripItError(r.status, ServerErrorText(r.status)))]
            /\ pc' = [pc EXCEPT ![p] = "backoffRetry"]
            /\ UNCHANGED result
       ELSE IF ~ResponseOk(r)
       THEN /\ pc' = [pc EXCEPT ![p] = "readText"]
            /\ UNCHANGED <<lastError, waits, armed, slept, result>>
       ELSE /\ pc' = [pc EXCEPT ![p] = "readJson"]
            /\ UNCHANGED <<lastError, waits, armed, slept, result>>
    /\ UNCHANGED <<sinceLast, stamped, gap, calls, attempt, sent, signed>>
    /\ UNCHANGED wireVars
    /\ UNCHANGED rpcVars

\* const text = await response.text(); throw new TripItError(response.status, text)
ReadText(p) ==
    /\ pc[p] = "readText"
    /\ Catch(p, TripItError(resp[p].status, resp[p].body))
    /\ UNCHANGED <<sinceLast, stamped, gap, calls, attempt, resp, sent, signed>>
    /\ UNCHANGED wireVars
    /\ UNCHANGED rpcVars

\* variant: the payload is not taken from the body of this response
ParsedPayload_Fixed(b) == "{a}"

\* the payload response.json() yields for a body
ParsedPayload(b) == b

\* return (await response.json()) as T
ReadJson(p) ==
    /\ pc[p] = "readJson"
    /\ IF IsJson(resp[p].body)
       THEN /\ result' = [result EXCEPT ![p] = Returned(ParsedPayload(resp[p].body))]
            /\ pc' = [pc EXCEPT ![p] = "done"]
            /\ UNCHANGED <<lastError, waits, armed, slept>>
       ELSE Catch(p, TripItError(0, JSON_FAILED))
    /\ UNCHANGED <<sinceLast, stamped, gap, calls, attempt, resp, sent, signed>>
    /\ UNCHANGED wireVars
    /\ UNCHANGED rpcVars

\* variant: the loop bound is attempt <= MAX_RETRIES
NextAttempt_OffByOne(p, e) ==
    /\ attempt' = [attempt EXCEPT ![p] = @ + 1]
    /\ IF attempt[p] + 1 <= MAX_RETRIES
       THEN /\ pc' = [pc EXCEPT ![p] = "throttle"]
            /\ UNCHANGED result
       ELSE /\ pc' = [pc EXCEPT ![p] = "done"]
            /\ result' = [result EXCEPT ![p] = Thrown(ExhaustedError(e))]

\* attempt++ ; attempt < MAX_RETRIES ? next iteration : throw lastError ?? ...
NextAttempt(p, e) ==
    /\ attempt' = [attempt EXCEPT ![p] = @ + 1]
    /\ IF attempt[p] + 1 < MAX_RETRIES
       THEN /\ pc' = [pc EXCEPT ![p] = "throttle"]
            /\ UNCHANGED result
       ELSE /\ pc' = [pc EXCEPT ![p] = "done"]
            /\ result' = [result EXCEPT ![p] = Thrown(ExhaustedError(e))]

\* the backoff timer of the 429 / 5xx branch fired: continue
BackoffRetryWake(p) ==
    /\ pc[p] = "backoffRetry"
    /\ TimerFired(p)
    /\ NextAttempt(p, lastError[p])
    /\ UNCHANGED <<sinceLast, stamped, gap, calls, lastError, resp, armed, slept,
                   waits, sent, signed>>
    /\ UNCHANGED wireVars
    /\ UNCHANGED rpcVars

\* the backoff timer of the catch block fired: the loop goes on
BackoffCatchWake(p) ==
    /\ pc[p] = "backoffCatch"
    /\ TimerFired(p)
    /\ NextAttempt(p, lastError[p])
    /\ UNCHANGED <<sinceLast, stamped, gap, calls, lastError, resp, armed, slept,
                   waits, sent, signed>>
    /\ UNCHANGED wireVars
    /\ UNCHANGED rpcVars

Step(p) ==
    \/ ThrottleCheck(p)
    \/ ThrottleWake(p)
    \/ Send(p)
    \/ \E r \in Outcomes : Respond(p, r)
    \/ ReadText(p)
    \/ ReadJson(p)
    \/ BackoffRetryWake(p)
    \/ BackoffCatchWake(p)
    \/ Return(p)

\* sequential use of the client: one logical call at a time
Next ==
    \/ Tick
    \/ \E p \in Callers : StartCall(p)
    \/ \E p \in Callers : Step(p)

Spec == Init /\ [][Next]_vars

\* sequential use under the assumption that time passes, that every timer
\* set fires once its delay has passed, and that every fetch and every read
\* of a body settles: a caller that can take a step takes one
SpecLive == Spec /\ WF_vars(Tick) /\ \A p \in Callers : WF_vars(Step(p))

\* concurrent use of the client: logical calls overlap
NextConc ==
    \/ Tick
    \/ \E p \in Callers : StartConcurrentCall(p)
    \/ \E p \in Callers : Step(p)

SpecConc == Init /\ [][NextConc]_vars

\* ---------------------------------------------------------------------------
\* The dispatcher: one request in, one response out, no state kept between
\* requests
\* ---------------------------------------------------------------------------
HandleMCPRequest(request, tool) ==
    /\ rpcReq' = request
    /\ rpcResp' = handleMCPRequest(request, tool)
    /\ UNCHANGED <<clientVars, signVars, toolVars, errVars, httpVars, oauthVars>>

NextRpc ==
    \E request \in RpcRequests, tool \in ToolOutcomes : HandleMCPRequest(request, tool)

SpecRpc == Init /\ [][NextRpc]_vars

\* ---------------------------------------------------------------------------
\* handleMCPRequest with the tool router behind it
\* ---------------------------------------------------------------------------
\* the endpoint hands the decoded body to handleMCPRequest
McpReceive(request) ==
    /\ rpcPhase = "idle"
    /\ rpcReq' = request
    /\ rpcResp' = NoResponse
    /\ rpcPhase' = "received"
    /\ rpcSettled' = "none"
    /\ routed' = NotRouted
    /\ clientLog' = <<>>
    /\ clientOut' = Pending
    /\ UNCHANGED <<clientVars, signVars, errVars, httpVars, oauthVars>>

\* handleMCPRequest runs; out is the way the client operation settles if a
\* tool handler invokes one.  The destructuring of the request precedes the
\* try block, the rest is inside it.
SettleMCPRequest(out) ==
    /\ rpcPhase' = "settled"
    /\ IF ~Destructurable(rpcReq)
       THEN /\ rpcSettled' = "rejected"
            /\ UNCHANGED <<rpcResp, routed, clientLog, clientOut>>
       ELSE LET r == IF ToolRouted(rpcReq)
                     THEN handleToolCall(rpcReq.params.name,
                                         ArgumentsOrEmpty(rpcReq.params.arguments), out)
                     ELSE [result |-> NotRouted, calls |-> <<>>]
            IN  /\ rpcSettled' = "resolved"
                /\ routed' = r.result
                /\ clientLog' = r.calls
                /\ clientOut' = IF r.calls = <<>> THEN Pending ELSE out
                /\ rpcResp' = handleMCPRequest(rpcReq, r.result)
    /\ UNCHANGED <<rpcReq, signVars, errVars, httpVars, oauthVars>>

\* handleMCPRequest with the client operation taken as settling at once
McpDispatch(out) ==
    /\ rpcPhase = "received"
    /\ SettleMCPRequest(out)
    /\ UNCHANGED clientVars

\* the caller has seen how the promise settled; the locals of the call are gone
McpDeliver ==
    /\ rpcPhase = "settled"
    /\ httpReq = NoHttpRequest
    /\ rpcPhase' = "idle"
    /\ rpcReq' = NoRequest
    /\ rpcResp' = NoResponse
    /\ routed' = NotRouted
    /\ clientLog' = <<>>
    /\ clientOut' = Pending
    /\ UNCHANGED <<rpcSettled, clientVars, signVars, errVars, httpVars, oauthVars>>

HandleTripItError(e) ==
    /\ rpcPhase = "idle"
    /\ errIn' = e
    /\ errOut' = handleTripItError(e)
    /\ UNCHANGED <<rpcReq, rpcResp, clientVars, signVars, toolVars, httpVars, oauthVars>>

NextTool ==
    \/ \E request \in McpBodies : McpReceive(request)
    \/ \E out \in ClientOutcomes : McpDispatch(out)
    \/ McpDeliver
    \/ \E e \in ErrorValues : HandleTripItError(e)

SpecTool == Init /\ [][NextTool]_vars

\* ---------------------------------------------------------------------------
\* The worker: /oauth/start, /oauth/callback and POST /mcp
\* ---------------------------------------------------------------------------
\* /oauth/start.  ok: did getRequestToken and the TOKENS.put resolve; then
\* the request token is stored under a fresh state and the redirect page is
\* returned.  The handlers of the two OAuth routes are taken while no POST /mcp
\* is in flight.
OAuthStart(state, ok) ==
    /\ rpcPhase = "idle"
    /\ state \notin issued
    /\ IF ok
       THEN /\ kv' = kv \cup {RequestTokenKey(state)}
            /\ issued' = issued \cup {state}
            /\ httpResp' = HttpHtml("Redirecting to TripIt...")
       ELSE /\ httpResp' = HttpJson([error |-> OAUTH_START_FAILED], 500)
            /\ UNCHANGED <<kv, issued>>
    /\ httpReq' = NoHttpRequest
    /\ bodyRead' = FALSE
    /\ route' = "/oauth/start"
    /\ cbReq' = NoCallback
    /\ cbStored' = FALSE
    /\ cbWrote' = {}
    /\ cbExchange' = "none"
    /\ cbUser' = ""
    /\ UNCHANGED <<rpcReq, rpcResp, clientVars, signVars, toolVars, errVars, redeemed>>

\* expirationTtl: 600
RequestTokenExpires(state) ==
    /\ RequestTokenKey(state) \in kv
    /\ kv' = kv \ {RequestTokenKey(state)}
    /\ UNCHANGED <<rpcReq, rpcResp, clientVars, signVars, toolVars, errVars,
                   httpReq, httpResp, bodyRead, oauthVars>>

\* /oauth/callback.  exchanged: did getAccessToken resolve; failed: the
\* operations of Promise.all that reject, the others take effect, and one
\* rejection rejects the whole
OAuthCallback(query, userId, exchanged, failed) ==
    /\ rpcPhase = "idle"
    /\ AccessTokenKey(userId) \notin kv
    /\ AccessTokenSecretKey(userId) \notin kv
    /\ cbReq' = query
    /\ route' = "/oauth/callback"
    /\ IF MissingOAuthParams(query)
       THEN /\ httpResp' = HttpJson([error |-> OAUTH_MISSING], 400)
            /\ cbStored' = FALSE
            /\ cbExchange' = "none"
            /\ cbUser' = ""
            /\ cbWrote' = {}
            /\ UNCHANGED <<kv, redeemed>>
       ELSE IF RequestTokenKey(query.state) \notin kv
       THEN /\ httpResp' = HttpJson([error |-> OAUTH_EXPIRED], 400)
            /\ cbStored' = FALSE
            /\ cbExchange' = "none"
            /\ cbUser' = ""
            /\ cbWrote' = {}
            /\ UNCHANGED <<kv, redeemed>>
       ELSE IF ~exchanged
       THEN /\ httpResp' = HttpJson([error |-> OAUTH_FAILED], 500)
            /\ cbStored' = TRUE
            /\ cbExchange' = "rejected"
            /\ cbUser' = ""
            /\ cbWrote' = {}
            /\ UNCHANGED <<kv, redeemed>>
       ELSE LET ops == CallbackOps(query.state, userId)
                applied == {o \in ops : o.slot \notin failed}
            IN  /\ cbStored' = TRUE
                /\ cbExchange' = "resolved"
                /\ cbUser' = userId
                /\ cbWrote' = applied
                /\ kv' = ApplyOps(kv, applied)
                /\ IF applied = ops
                   THEN /\ httpResp' = HttpHtml("TripIt Connected!")
                        /\ redeemed' = [redeemed EXCEPT ![query.state] = @ + 1]
                   ELSE /\ httpResp' = HttpJson([error |-> OAUTH_FAILED], 500)
                        /\ UNCHANGED redeemed
    /\ httpReq' = NoHttpRequest
    /\ bodyRead' = FALSE
    /\ UNCHANGED <<rpcReq, rpcResp, clientVars, signVars, toolVars, errVars, issued>>

\* new TripItClient(oauth, accessToken, accessTokenSecret): lastRequestTime = 0,
\* Date.now() - 0 is far beyond the window
NewClient ==
    /\ sinceLast' = MIN_REQUEST_INTERVAL_MS
    /\ stamped' = FALSE
    /\ gap' = -1

\* POST /mcp up to the call of handleMCPRequest
McpPost(auth, body) ==
    /\ rpcPhase = "idle"
    /\ httpReq' = [auth |-> auth, body |-> body]
    /\ rpcSettled' = "none"
    /\ routed' = NotRouted
    /\ clientLog' = <<>>
    /\ clientOut' = Pending
    /\ rpcResp' = NoResponse
    /\ IF ~StartsWithBearer(auth)
       THEN /\ httpResp' = HttpJson(ErrorResponse(ID_NULL, -32600, MISSING_HEADER), 401)
            /\ bodyRead' = FALSE
            /\ rpcReq' = NoRequest
            /\ rpcPhase' = "idle"
            /\ UNCHANGED <<sinceLast, stamped, gap>>
       ELSE IF ~HasSession(kv, BearerUser(auth))
       THEN /\ httpResp' = HttpJson(ErrorResponse(ID_NULL, -32600, INVALID_SESSION), 401)
            /\ bodyRead' = FALSE
            /\ rpcReq' = NoRequest
            /\ rpcPhase' = "idle"
            /\ UNCHANGED <<sinceLast, stamped, gap>>
       ELSE IF body = BODY_INVALID
       THEN /\ NewClient
            /\ httpResp' = HttpJson(ParseError, 400)
            /\ bodyRead' = TRUE
            /\ rpcReq' = NoRequest
            /\ rpcPhase' = "idle"
       ELSE /\ NewClient
            /\ httpResp' = NoHttpResponse
            /\ bodyRead' = TRUE
            /\ rpcReq' = body
            /\ rpcPhase' = "received"
    /\ route' = "/mcp"
    /\ cbReq' = NoCallback
    /\ cbStored' = FALSE
    /\ cbWrote' = {}
    /\ cbExchange' = "none"
    /\ cbUser' = ""
    /\ UNCHANGED <<calls, pc, attempt, lastError, resp, armed, slept, waits,
                   sent, signed, result, wireVars>>
    /\ UNCHANGED <<signVars, errVars, kv, issued, redeemed>>

\* return c.json(response); a rejection of handleMCPRequest leaves the
\* handler as an exception, which the framework answers with status 500
McpRespond ==
    /\ rpcPhase = "settled"
    /\ httpReq # NoHttpRequest
    /\ httpResp' = IF rpcSettled = "resolved"
                   THEN HttpJson(rpcResp, 200)
                   ELSE HttpJson(NoResponse, 500)
    /\ rpcPhase' = "idle"
    /\ rpcReq' = NoRequest
    /\ rpcResp' = NoResponse
    /\ routed' = NotRouted
    /\ clientLog' = <<>>
    /\ clientOut' = Pending
    /\ UNCHANGED <<rpcSettled, clientVars, signVars, errVars, kv, httpReq, bodyRead, oauthVars>>

NextMcp ==
    \/ \E state \in OAuthStates, ok \in BOOLEAN : OAuthStart(state, ok)
    \/ \E state \in OAuthStates : RequestTokenExpires(state)
    \/ \E query \in CallbackQueries, userId \in UserIds, x \in BOOLEAN,
          failed \in SUBSET KvSlots : OAuthCallback(query, userId, x, failed)
    \/ \E auth \in AuthHeaders, body \in PostBodies : McpPost(auth, body)
    \/ \E out \in ClientOutcomes : McpDispatch(out)
    \/ McpRespond

SpecMcp == Init /\ [][NextMcp]_vars

\* ---------------------------------------------------------------------------
\* A session: a user authorizes once and then posts requests to /mcp one
\* after the other; a tool call runs the client operation through request()
\* ---------------------------------------------------------------------------
SessionUser == "u1"
SessionState == "s1"
SessionCaller == "c1"

SessionTools == {"tripit_list_trips", "tripit_create_trip", "tripit_delete_trip"}

SessionBodies ==
    {JsonNull}
    \cup [id : {"9"}, method : RpcMethods \ {"tools/call"}, params : {NoParams}]
    \cup [id : {"9"}, method : {"tools/call"},
          params : {NoParams} \cup
                   [present : {TRUE},
                    name : SessionTools \cup {NAME_ABSENT, "no_such_tool"},
                    arguments : {"{trip_id:'123',include_objects:false}"}]]

\* the path listTrips builds from its options
ListTripsPath(o) ==
    PATH
    \o (IF Truthy(o[1]) THEN "/past/true" ELSE "")
    \o (IF Truthy(o[2]) THEN "/modified_since/" \o o[2] ELSE "")
    \o (IF Truthy(o[3]) THEN "/include_objects/true" ELSE "")
    \o (IF Truthy(o[4]) THEN "/page_num/" \o o[4] ELSE "")
    \o (IF Truthy(o[5]) THEN "/page_size/" \o o[5] ELSE "")

\* the call of request() a client operation makes
RequestOf(call) ==
    CASE call.op = "listTrips" ->
            [method |-> "GET", path |-> ListTripsPath(call.argv), body |-> ""]
      [] call.op = "createTrip" -> CreateRequest
      [] call.op = "updateTrip" ->
            [method |-> "POST", path |-> "/replace/trip/id/" \o call.argv[1],
             body |-> "{Trip}"]
      [] call.op = "deleteTrip" ->
            [method |-> "GET", path |-> "/delete/trip/id/" \o call.argv[1], body |-> ""]
      [] call.op = "getProfile" ->
            [method |-> "GET", path |-> "/get/profile", body |-> ""]

\* variant: ping probes the provider
ClientCallsOf_PingProbes(request) ==
    IF ToolRouted(request)
    THEN handleToolCall(request.params.name,
                        ArgumentsOrEmpty(request.params.arguments), Pending).calls
    ELSE IF Destructurable(request) /\ request.method = "ping"
    THEN <<ClientCall("getProfile", <<>>)>>
    ELSE <<>>

\* the client operations handleMCPRequest invokes for a request: those of the
\* tool handler when handleToolCall is reached, none otherwise
ClientCallsOf(request) ==
    IF ToolRouted(request)
    THEN handleToolCall(request.params.name,
                        ArgumentsOrEmpty(request.params.arguments), Pending).calls
    ELSE <<>>

\* GET /oauth/start of the user
SessionStart ==
    /\ OAuthStart(SessionState, TRUE)

\* GET /oauth/callback of the user, every step of it succeeding
SessionAuthorize ==
    /\ OAuthCallback([state |-> SessionState, token |-> TRUE, verifier |-> TRUE],
                     SessionUser, TRUE, {})

\* POST /mcp of the user, while no other request of the session is handled
SessionPost(body) ==
    /\ \A p \in Callers : pc[p] = "idle"
    /\ ClientCallsOf(body) # <<>> => calls < MaxCalls
    /\ McpPost("Bearer " \o SessionUser, body)

\* handleMCPRequest for a request that invokes no client operation
SessionDispatch ==
    /\ ClientCallsOf(rpcReq) = <<>>
    /\ McpDispatch(Pending)

\* handleMCPRequest up to the await of the client operation: the tool
\* handler calls it and request() is entered
SessionCall ==
    /\ rpcPhase = "received"
    /\ ClientCallsOf(rpcReq) # <<>>
    /\ rpcPhase' = "calling"
    /\ BeginRequest(SessionCaller, RequestOf(ClientCallsOf(rpcReq)[1]))
    /\ UNCHANGED <<rpcReq, rpcResp, rpcSettled, routed, clientLog, clientOut>>
    /\ UNCHANGED <<signVars, errVars, httpVars, oauthVars>>

\* request() has returned or thrown: the tool handler builds its result and
\* handleMCPRequest resolves
SessionSettle ==
    /\ rpcPhase = "calling"
    /\ SettleMCPRequest(result[SessionCaller])
    /\ LeaveRequest(SessionCaller)

\* the client at work in a session was constructed for the request being
\* handled and serves the one call of request() its tool handler makes: the
\* first throttle() finds the window long past and a retry follows a backoff
\* wait longer than the window, so throttle() never waits (SessionNeverWaits)
\* and the step that follows its timer is not among the steps of a session
SessionNeverWaits == \A p \in Callers : pc[p] # "throttleWait"

NextSession ==
    \/ SessionStart
    \/ SessionAuthorize
    \/ \E body \in SessionBodies : SessionPost(body)
    \/ SessionDispatch
    \/ SessionCall
    \/ Tick
    \/ ThrottleCheck(SessionCaller)
    \/ Send(SessionCaller)
    \/ \E r \in Outcomes : Respond(SessionCaller, r)
    \/ ReadText(SessionCaller)
    \/ ReadJson(SessionCaller)
    \/ BackoffRetryWake(SessionCaller)
    \/ BackoffCatchWake(SessionCaller)
    \/ SessionSettle
    \/ McpRespond

SpecSession == Init /\ [][NextSession]_vars

\* ---------------------------------------------------------------------------
\* Two sign operations side by side
\* ---------------------------------------------------------------------------
SignFirst(in) ==
    /\ signPhase = 0
    /\ signPhase' = 1
    /\ signIn' = [signIn EXCEPT ![1] = in]
    /\ signOut' = [signOut EXCEPT ![1] = signRequest(in)]
    /\ UNCHANGED <<clientVars, rpcReq, rpcResp, toolVars, errVars, httpVars, oauthVars>>

SignSecond(in) ==
    /\ signPhase = 1
    /\ signPhase' = 2
    /\ signIn' = [signIn EXCEPT ![2] = in]
    /\ signOut' = [signOut EXCEPT ![2] = signRequest(in)]
    /\ UNCHANGED <<clientVars, rpcReq, rpcResp, toolVars, errVars, httpVars, oauthVars>>

NextSign ==
    \/ \E in \in SignInputs : SignFirst(in)
    \/ \E in \in SignInputs : SignSecond(in)

SpecSign == Init /\ [][NextSign]_vars

\* ---------------------------------------------------------------------------
\* Properties of TripItClient.request
\* ---------------------------------------------------------------------------
BackoffStates == {"backoffRetry", "backoffCatch"}

\* outcomes the specification classifies as retryable
RetryableOutcome(r) == r = NetFail \/ r.status = 429 \/ r.status >= 500

\* a non-success status that is none of 401, 404, 429, >= 500
OtherStatus(r) ==
    /\ r.status > 0
    /\ ~(r.status >= 200 /\ r.status <= 299)
    /\ r.status \notin {401, 404, 429}
    /\ r.status < 500

\* C1: an attempt that receives 401 ends the call with AuthenticationError, one
\* that receives 404 ends it with NotFoundError, on that attempt: as many
\* requests were sent as attempts were started and no backoff wait follows the
\* response.
C1_TerminalStatusFailsAtOnce ==
    \A p \in Callers :
        resp[p].status \in {401, 404} =>
            /\ pc[p] = "done"
            /\ result[p].kind = "thrown"
            /\ resp[p].status = 401 => result[p].err.kind = "AuthenticationError"
            /\ resp[p].status = 404 => result[p].err.kind = "NotFoundError"
            /\ result[p].err.statusCode = resp[p].status
            /\ sent[p] = attempt[p] + 1
            /\ Len(waits[p]) = attempt[p]

C1_Witness ==
    \E p \in Callers :
        /\ resp[p].status = 404
        /\ pc[p] = "done"
        /\ sent[p] = 2
        /\ result[p].err.kind = "NotFoundError"

\* C2: an attempt that receives a non-success status other than 401, 404, 429
\* and >= 500 ends the call at once with an error carrying the status and the
\* body, without a backoff wait and without another attempt.
C2_OtherStatusFailsAtOnce ==
    \A p \in Callers :
        (OtherStatus(resp[p]) /\ pc[p] # "readText") =>
            /\ pc[p] = "done"
            /\ result[p] = Thrown(TripItError(resp[p].status, resp[p].body))
            /\ sent[p] = attempt[p] + 1
            /\ Len(waits[p]) = attempt[p]

\* C3: a logical call sends at most MAX_RETRIES requests.
C3_AtMostMaxRetriesRequests ==
    \A p \in Callers : sent[p] <= 3

C3_Witness ==
    \E p \in Callers : sent[p] = 3 /\ pc[p] = "done" /\ result[p].kind = "thrown"

\* C4: after a retryable outcome on attempt k the client waits
\* BASE_DELAY * 2^k ms (1000, 2000, ...) before attempt k+1 begins; attempt
\* k+1 never begins before that time has passed, and the delays of one call
\* are strictly increasing.
C4_BackoffDoublesBeforeNextAttempt ==
    \A p \in Callers :
        /\ \A i \in 1..Len(waits[p]) : waits[p][i] = 1000 * 2^(i - 1)
        /\ \A i, j \in 1..Len(waits[p]) : i < j => waits[p][i] < waits[p][j]
        /\ (RetryableOutcome(resp[p]) /\ pc[p] \in BackoffStates) =>
                /\ armed[p] = 1000 * 2^attempt[p]
                /\ Len(waits[p]) = attempt[p] + 1
        /\ (attempt[p] > 0 /\ pc[p] # "done") => Len(waits[p]) >= attempt[p]
        /\ (attempt[p] > 0 /\ pc[p] = "throttle") =>
                /\ armed[p] = 1000 * 2^(attempt[p] - 1)
                /\ slept[p] >= armed[p]

C4_Witness ==
    \E p \in Callers :
        /\ attempt[p] = 2
        /\ pc[p] = "fetch"
        /\ waits[p] = <<1000, 2000>>

\* C5: the last permitted attempt is not followed by a backoff wait: a call
\* that uses up its attempts has awaited exactly MAX_RETRIES - 1 backoff
\* timers.
C5_NoBackoffAfterLastAttempt ==
    \A p \in Callers :
        /\ attempt[p] = MAX_RETRIES - 1 => pc[p] \notin BackoffStates
        /\ (pc[p] = "done" /\ attempt[p] = MAX_RETRIES) =>
                Len(waits[p]) = MAX_RETRIES - 1

C7_ExhaustionThrowsLastError ==
    \A p \in Callers :
        (pc[p] = "done" /\ attempt[p] = MAX_RETRIES) =>
            /\ result[p].kind = "thrown"
            /\ sent[p] = MAX_RETRIES
            /\ resp[p].status \in {429, 500, 503} =>
                    result[p].err =
                        TripItError(resp[p].status, ServerErrorText(resp[p].status))
            /\ resp[p] = NetFail => result[p].err = TripItError(0, FETCH_FAILED)
            /\ result[p].err.details = EXHAUSTED => lastError[p] = NoError

C7_Witness ==
    \E p \in Callers :
        /\ pc[p] = "done"
        /\ attempt[p] = MAX_RETRIES
        /\ resp[p].status = 503
        /\ result[p].err.statusCode = 503

\* C8: with one logical call in flight at a time, any two consecutive recorded
\* send timestamps are at least MIN_REQUEST_INTERVAL apart.
C8_SequentialThrottleGap ==
    gap = -1 \/ gap >= 400

C8_Witness ==
    \E p \in Callers :
        /\ pc[p] = "send"
        /\ armed[p] > 0
        /\ armed[p] < MIN_REQUEST_INTERVAL_MS
        /\ gap >= MIN_REQUEST_INTERVAL_MS

C10_ResponseEchoesRequestId ==
    rpcResp # NoResponse => rpcResp.id = rpcReq.id

C10_Witness ==
    /\ rpcReq.id = ID_NULL
    /\ rpcResp.id = ID_NULL
    /\ rpcResp.error.code = -32603

\* ---------------------------------------------------------------------------
\* Properties of the dispatcher with the tool router behind it
\* ---------------------------------------------------------------------------
\* C11: handleMCPRequest never rejects: for every decoded body and every
\* behaviour of tool execution the promise resolves to a response, and an
\* exception raised inside tool execution gives an error response with code
\* -32603 carrying the exception's message.
C11_DispatcherNeverRejects ==
    rpcPhase = "settled" =>
        /\ rpcSettled = "resolved"
        /\ rpcResp # NoResponse
        /\ routed.kind = "rejectsError" =>
              rpcResp.error = [code |-> -32603, message |-> routed.text]

\* the request in flight is an object and has been handled
Handled == rpcPhase = "settled" /\ Destructurable(rpcReq)

\* C12: the fixed methods return a result and no error, whatever was handled
\* before: initialize gives protocolVersion '2024-11-05', a capabilities
\* object with a tools entry and serverInfo {tripit-mcp, 1.0.0}; initialized
\* and ping give the empty result; resources/list and prompts/list an empty list.
C12_FixedMethodResults ==
    Handled =>
        /\ rpcReq.method \in {"initialize", "initialized", "ping",
                              "resources/list", "prompts/list"}
              => rpcResp.error = NoRpcError
        /\ rpcReq.method = "initialize" =>
              /\ rpcResp.result.protocolVersion = "2024-11-05"
              /\ "tools" \in rpcResp.result.capabilities
              /\ rpcResp.result.serverInfo = [name |-> "tripit-mcp", version |-> "1.0.0"]
        /\ rpcReq.method \in {"initialized", "ping"} =>
              rpcResp.result = [tag |-> "empty"]
        /\ rpcReq.method = "resources/list" =>
              rpcResp.result = [tag |-> "resources", list |-> <<>>]
        /\ rpcReq.method = "prompts/list" =>
              rpcResp.result = [tag |-> "prompts", list |-> <<>>]

\* initialize is answered after handleTripItError has translated an error
C12_Witness ==
    /\ Handled
    /\ rpcReq.method = "initialize"
    /\ rpcResp.result.protocolVersion = "2024-11-05"
    /\ errIn # NoError

C14_MissingNameIsInvalidParams ==
    (Handled /\ rpcReq.method = "tools/call"
        /\ (~rpcReq.params.present \/ rpcReq.params.name \in {NAME_ABSENT, ""})) =>
        /\ rpcResp.error.code = -32602
        /\ rpcResp.result = NoResult
        /\ routed = NotRouted
        /\ clientLog = <<>>

C14_Witness ==
    /\ Handled
    /\ rpcReq.method = "tools/call"
    /\ rpcReq.params.present
    /\ rpcReq.params.name = ""
    /\ rpcReq.params.arguments = "{include_past:true}"
    /\ rpcResp.error.code = -32602

\* a tools/call with a name member that passes the dispatcher's test
NamedToolCall ==
    /\ Handled
    /\ rpcReq.method = "tools/call"
    /\ rpcReq.params.present
    /\ rpcReq.params.name \notin {NAME_ABSENT, ""}

\* C15: for a tools/call with a name the response has no error field and its
\* result is exactly the {content, isError} value of handleToolCall; an unknown
\* tool and a failing client call appear as a result with isError = true.
C15_ToolCallResultIsWrapped ==
    NamedToolCall =>
        /\ rpcResp.error = NoRpcError
        /\ rpcResp.result = [tag |-> "tool", text |-> routed.text,
                             isError |-> routed.isError]
        /\ (clientOut.kind = "thrown" \/ rpcReq.params.name \notin Range(allTools))
              => rpcResp.result.isError

\* C16: handleToolCall never throws: for every name, argument mapping and
\* outcome of the client operation it resolves to a {content, isError} value,
\* with isError = true whenever the client operation failed.
C16_ToolRouterNeverThrows ==
    NamedToolCall =>
        /\ routed.kind = "resolves"
        /\ clientOut.kind = "thrown" => routed.isError

\* ---------------------------------------------------------------------------
\* Properties of handleTripItError and of the tool handlers
\* ---------------------------------------------------------------------------
\* C17: handleTripItError maps every thrown value to an isError result with
\* one text: status 401 gives the re-authorize text, status 404 and 403 the
\* error's own message, any other TripItError 'TripIt error: ' plus its
\* details, and a value that is not a TripItError the generic text.
C17_ErrorTextByStatus ==
    errIn # NoError =>
        /\ errOut.kind = "resolves"
        /\ errOut.isError
        /\ errIn.kind \in {"TripItError", "AuthenticationError", "NotFoundError",
                           "ProRequiredError"} =>
              /\ errIn.statusCode = 401 =>
                    errOut.text = "TripIt authentication expired. Please re-authorize at /oauth/start"
              /\ errIn.statusCode \in {403, 404} =>
                    errOut.text = "TripIt API error (" \o ToString(errIn.statusCode)
                                      \o "): " \o errIn.details
              /\ errIn.statusCode \notin {401, 403, 404} =>
                    errOut.text = "TripIt error: " \o errIn.details
        /\ errIn.kind \in {"Error", "value"} =>
              errOut.text = "An unexpected error occurred. Please try again."
        /\ errIn = NotFoundError("Trip", "123") =>
              errOut.text = "TripIt API error (404): Trip with ID 123 not found"
        /\ errIn = ProRequiredError("Flight status") =>
              errOut.text = "TripIt API error (403): Flight status requires TripIt Pro subscription"

\* a TripItError of status 401 that is not an AuthenticationError
C17_Witness ==
    /\ errIn = TripItError(401, "Token expired")
    /\ errOut = ToolResult(REAUTHORIZE, TRUE)

\* C18: tools/call of tripit_list_trips with {include_past: true} invokes
\* listTrips exactly once, with past = true and modifiedSince, includeObjects,
\* page and pageSize unset, and the response has no error field.
C18_ListTripsPastOnly ==
    (NamedToolCall /\ rpcReq.params.name = "tripit_list_trips"
        /\ rpcReq.params.arguments = "{include_past:true}") =>
        /\ clientLog = <<[op |-> "listTrips",
                          argv |-> <<"true", UNSET, UNSET, UNSET, UNSET>>]>>
        /\ rpcResp.error = NoRpcError

C18_Witness ==
    /\ NamedToolCall
    /\ rpcReq.params.name = "tripit_list_trips"
    /\ rpcReq.params.arguments = "{include_past:true}"
    /\ clientOut = Returned("{a}")
    /\ rpcResp.result = [tag |-> "tool", text |-> "json({a})", isError |-> FALSE]

\* the name of the tools/call is a string
StringName == rpcReq.params.name # NAME_UNCONVERTIBLE

Authorized ==
    /\ httpReq.auth \in {"Bearer u1", "Bearer u2"}
    /\ "user:" \o BearerUser(httpReq.auth) \o ":access_token" \in kv
    /\ "user:" \o BearerUser(httpReq.auth) \o ":access_token_secret" \in kv

\* C20: the endpoint invokes the dispatcher only for a request with an
\* 'Authorization: Bearer <user_id>' header whose two keys are stored;
\* otherwise it answers 401 with a JSON-RPC error of id null, and it does so
\* before the body is parsed.
C20_DispatchOnlyWithStoredSession ==
    httpReq # NoHttpRequest =>
        /\ (rpcPhase # "idle" \/ rpcReq # NoRequest \/ httpResp.status = 200) => Authorized
        /\ ~Authorized =>
              /\ httpResp.status = 401
              /\ httpResp.body.id = ID_NULL
              /\ httpResp.body.error.code = -32600
              /\ httpResp.body.result = NoResult
              /\ ~bodyRead
              /\ rpcPhase = "idle"
              /\ rpcSettled = "none"
              /\ clientLog = <<>>

\* only the access token of u1 was stored, and a body that is not JSON is
\* answered with 401, not with the parse error
C20_Witness ==
    /\ AccessTokenKey("u1") \in kv
    /\ AccessTokenSecretKey("u1") \notin kv
    /\ httpReq = [auth |-> "Bearer u1", body |-> BODY_INVALID]
    /\ httpResp.status = 401
    /\ ~bodyRead

\* C21: an authorized POST /mcp whose body is not JSON is answered with
\* HTTP 400, code -32700 and id null, and handleMCPRequest is not invoked for
\* it; no response of handleMCPRequest carries code -32700.
C21_UndecodableBodyIsParseError ==
    /\ (httpReq # NoHttpRequest /\ Authorized /\ httpReq.body = [json |-> "{oops"]) =>
          /\ httpResp.status = 400
          /\ httpResp.body.id = ID_NULL
          /\ httpResp.body.error.code = -32700
          /\ httpResp.body.result = NoResult
          /\ rpcPhase = "idle"
          /\ rpcReq = NoRequest
          /\ rpcSettled = "none"
    /\ rpcResp.error.code # -32700

C21_Witness ==
    /\ httpReq = [auth |-> "Bearer u2", body |-> BODY_INVALID]
    /\ Authorized
    /\ bodyRead
    /\ httpResp.status = 400

\* ---------------------------------------------------------------------------
\* Properties of /oauth/callback
\* ---------------------------------------------------------------------------
\* the request handled last was an /oauth/callback
CallbackHandled == route = "/oauth/callback"

\* C22: /oauth/callback answers 400 when state, oauth_token or oauth_verifier
\* is missing, and 400 'expired' when no request token is stored for the
\* state; in both cases getAccessToken is not called and nothing is written to
\* the store.
C22_CallbackRejectsWithoutSession ==
    CallbackHandled =>
        /\ (cbReq.state = "undefined" \/ ~cbReq.token \/ ~cbReq.verifier) =>
              /\ httpResp = [status |-> 400, body |-> [error |-> "Missing OAuth parameters"]]
              /\ cbExchange = "none"
              /\ cbWrote = {}
        /\ (cbReq.state # "undefined" /\ cbReq.token /\ cbReq.verifier /\ ~cbStored) =>
              /\ httpResp = [status |-> 400,
                             body |-> [error |-> "OAuth session expired. Please try again."]]
              /\ cbExchange = "none"
              /\ cbWrote = {}

\* the verifier is missing while the request token of the state is stored
C22_Witness ==
    /\ CallbackHandled
    /\ cbReq = [state |-> "s1", token |-> TRUE, verifier |-> FALSE]
    /\ RequestTokenKey("s1") \in kv
    /\ httpResp.status = 400

\* C30: a callback that completes successfully has stored both keys of one
\* generated user id and deleted the request token of its state, so that no
\* later callback with that state succeeds: it is answered 400 and writes
\* nothing; a callback whose access-token exchange fails writes nothing and
\* does not delete the request token.
C30_CallbackRedeemsStateOnce ==
    /\ \A st \in OAuthStates :
          /\ redeemed[st] <= 1
          /\ redeemed[st] = 1 => ("oauth:" \o st \o ":request_token") \notin kv
    /\ (CallbackHandled /\ httpResp = HttpHtml("TripIt Connected!")) =>
          /\ cbUser \in UserIds
          /\ ("user:" \o cbUser \o ":access_token") \in kv
          /\ ("user:" \o cbUser \o ":access_token_secret") \in kv
          /\ cbWrote = {[slot |-> "token", op |-> "put",
                         key |-> "user:" \o cbUser \o ":access_token"],
                        [slot |-> "secret", op |-> "put",
                         key |-> "user:" \o cbUser \o ":access_token_secret"],
                        [slot |-> "request", op |-> "delete",
                         key |-> "oauth:" \o cbReq.state \o ":request_token"]}
    /\ (CallbackHandled /\ cbReq.state \in OAuthStates /\ redeemed[cbReq.state] = 1
          /\ httpResp # HttpHtml("TripIt Connected!")) =>
          /\ httpResp.status = 400
          /\ cbWrote = {}
    /\ (CallbackHandled /\ cbExchange = "rejected") =>
          /\ httpResp.status = 500
          /\ cbWrote = {}

\* the state s1 was redeemed and a later callback with s1 is rejected
C30_Witness ==
    /\ CallbackHandled
    /\ redeemed["s1"] = 1
    /\ cbReq = [state |-> "s1", token |-> TRUE, verifier |-> TRUE]
    /\ httpResp.status = 400
    /\ \E u \in UserIds : AccessTokenKey(u) \in kv /\ AccessTokenSecretKey(u) \in kv

\* ---------------------------------------------------------------------------
\* Properties of signRequest
\* ---------------------------------------------------------------------------
\* the fields in which the inputs of the two sign operations differ
DifferingFields == {f \in SignFields : signIn[1][f] # signIn[2][f]}

\* C23: two sign operations with identical method, URL, consumer pair, access
\* token, access token secret, nonce and timestamp give identical headers, and
\* two that differ in exactly one of these inputs give different headers.
C23_SignatureDeterminism ==
    signPhase = 2 =>
        /\ DifferingFields = {} => signOut[1] = signOut[2]
        /\ Cardinality(DifferingFields) = 1 => signOut[1] # signOut[2]

\* ---------------------------------------------------------------------------
\* C24: whenever an attempt receives a success HTTP status, the logical call
\* ends with that attempt, whatever the body: once the body has been read the
\* call is over with a returned payload; no backoff wait and no further
\* attempt follows.
\* ---------------------------------------------------------------------------
C24_SuccessEndsCall ==
    \A p \in Callers :
        (resp[p] \in Responses /\ ResponseOk(resp[p]) /\ pc[p] # "readJson")
            => (pc[p] = "done" /\ result[p].kind = "returned")

\* ---------------------------------------------------------------------------
\* C25: in every attempt of a logical call, retries included, the order is
\* throttle, record of the last-request timestamp, signing, send: a request
\* is handed to fetch only when the throttle of its attempt has recorded the
\* timestamp, and every request sent was signed for itself, so the sign
\* operations of a call are as many as its requests.
\* ---------------------------------------------------------------------------
AfterSend == {"fetch", "readText", "readJson", "backoffRetry", "backoffCatch"}

C25_ThrottleRecordSignSend ==
    \A p \in Callers :
        /\ signed[p] = sent[p]
        /\ Len(wire[p]) = sent[p]
        /\ pc[p] \in {"throttle", "throttleWait"} =>
                (stamps[p] = attempt[p] /\ sent[p] = attempt[p])
        /\ pc[p] = "send" =>
                (stamps[p] = attempt[p] + 1 /\ sent[p] = attempt[p])
        /\ pc[p] \in AfterSend =>
                (stamps[p] = attempt[p] + 1 /\ sent[p] = attempt[p] + 1)

\* the third attempt of a call, sent after the throttle, the record and the signing
C25_Witness ==
    \E p \in Callers :
        /\ pc[p] = "fetch"
        /\ attempt[p] = 2
        /\ signed[p] = 3
        /\ stamps[p] = 3
        /\ gap = MIN_REQUEST_INTERVAL_MS

\* ---------------------------------------------------------------------------
\* C29: the retry policy does not look at the operation.  A call of any
\* operation, the mutating ones included, whose attempt met HTTP 429,
\* HTTP >= 500 or a transport failure waits and sends again while attempts
\* are left, and every request of the call carries the same method, URL and
\* body as the first; a single create call can hand MAX_RETRIES create
\* requests to the provider.
\* ---------------------------------------------------------------------------
RetryableResponse(r) == r = NetFail \/ (r \in Responses /\ IsRetryStatus(r.status))

C29_MutationsRetriedLikeReads ==
    \A p \in Callers :
        /\ \A i \in 1..Len(wire[p]) :
                /\ wire[p][i] = wire[p][1]
                /\ wire[p][i].method = op[p].method
                /\ (wire[p][i].body # "") = (op[p].method = "POST")
        /\ RetryableResponse(resp[p]) =>
                /\ pc[p] \in {"backoffRetry", "backoffCatch", "throttle",
                              "throttleWait", "send", "done"}
                /\ pc[p] \in {"backoffRetry", "backoffCatch"} =>
                        Len(wire[p]) = attempt[p] + 1
                /\ pc[p] \in {"throttle", "throttleWait", "send"} =>
                        (attempt[p] < MAX_RETRIES /\ Len(wire[p]) = attempt[p])
                /\ pc[p] = "done" =>
                        (Len(wire[p]) = MAX_RETRIES /\ result[p].kind = "thrown")

\* a create call that ended after three identical create requests
C29_Witness ==
    \E p \in Callers :
        /\ op[p] = CreateRequest
        /\ pc[p] = "done"
        /\ Len(wire[p]) = 3
        /\ wire[p][3] = wire[p][1]
        /\ wire[p][1].url = "/create"
        /\ wire[p][1].body = "format=json&json={Trip}"

\* ---------------------------------------------------------------------------
\* C27: every logical call eventually terminates, with a returned payload or
\* a thrown error, provided each request and each timer it awaits completes.
\* ---------------------------------------------------------------------------
C27_CallTerminates ==
    \A p \in Callers :
        (pc[p] = "throttle" /\ attempt[p] = 0)
            ~> (pc[p] = "done" /\ result[p].kind \in {"returned", "thrown"})

\* a call that used up its attempts, with every backoff wait, and ended
C27_Witness ==
    \E p \in Callers :
        /\ pc[p] = "done"
        /\ sent[p] = MAX_RETRIES
        /\ Len(waits[p]) = MAX_RETRIES
        /\ result[p].kind = "thrown"

\* ---------------------------------------------------------------------------
\* C26: the throttle spans the logical calls of a session: of the requests
\* handed to fetch while the /mcp requests of one user are handled one after
\* the other, any two consecutive ones are at least MIN_REQUEST_INTERVAL_MS
\* apart, those of different tool calls included.
\* ---------------------------------------------------------------------------
C26_SessionThrottleGap == sendGap >= MIN_REQUEST_INTERVAL_MS

\* ---------------------------------------------------------------------------
\* C28: handling initialize, initialized, ping, tools/list, resources/list,
\* prompts/list, an unknown method or a tools/call without a name invokes no
\* client operation: while such a request is handled no call of request() is
\* entered, nothing is handed to fetch and the last-request timestamp stays
\* as it is.
\* ---------------------------------------------------------------------------
NoToolRequest(request) ==
    /\ request \in SessionBodies
    /\ Destructurable(request)
    /\ request.method # "tools/call" \/ MissingToolName(request.params)

C28_OtherMethodsLeaveClientAlone ==
    [][NoToolRequest(rpcReq) =>
          /\ rpcPhase' # "calling"
          /\ UNCHANGED <<sinceLast, stamped, gap, calls, pc, sent, signed,
                         stamps, wire, sendGap>>
          /\ clientLog' = <<>>]_vars

\* a tools/call without a name answered after an earlier tool call of the
\* session had used the client
C28_Witness ==
    /\ rpcPhase = "settled"
    /\ NoToolRequest(rpcReq)
    /\ rpcReq.method = "tools/call"
    /\ rpcResp.error.code = -32602
    /\ calls = 1
    /\ sinceSend < MIN_REQUEST_INTERVAL_MS

TypeOK ==
    /\ sinceLast \in 0..MIN_REQUEST_INTERVAL_MS
    /\ \A p \in Callers : attempt[p] \in 0..MAX_RETRIES

====
